---- MODULE Spec2Model ----
(***************************************************************************)
(* Model of fret's workspace layer (src/fret/workspace.py, src/fret/util.py)*)
(*                                                                         *)
(* Two state machines share this module:                                   *)
(*   Spec     - Workspace: register / write / build / Builder call /       *)
(*              save / load / opening a Workspace on the directory.        *)
(*   SpecRun  - Run: the resumable session (value, range, brange),         *)
(*              Range.__iter__, nonbreak and SIGINT delivery.              *)
(* Python objects are modelled with identity where the code shares them:   *)
(* a built object is a position in the heap objs, and a table entry made   *)
(* by register(name, instance) refers to that instance's config dict.      *)
(***************************************************************************)
EXTENDS Integers, Sequences, FiniteSets, TLC

VARIABLES
    wss,          \* Workspace objects: wss[1] is the live one
    objs,         \* heap of built module instances
    built,        \* per instance: what was in force when it was built
    configToml,   \* <workspace>/config.toml: NoFile or its content
    snapshots,    \* snapshot/<build_name>.<tag>.pt files
    wsErr,        \* exception raised by the last Workspace call ("" if none)
    nOps          \* number of Workspace calls made so far

wsVars == <<wss, objs, built, configToml, snapshots, wsErr, nOps>>

VARIABLES
    statesFile,       \* snapshot/<id>/.states.pt of the session
    _states,          \* Run._states
    _index,           \* Run._index
    _seen,            \* Run._seen
    pc,               \* where the application is: closed, open, iter, body, after, gap
    loop,             \* the for loop in progress and its generator
    sigHandler,       \* the SIGINT handler in force
    signal_received,  \* nonbreak's signal_received, of the generator in use
    raised,           \* exception raised inside the Run scope ("" if none)
    exc,              \* exception that reached the caller of the scope
    hist,             \* history of the sessions, for stating the properties
    nSessions,        \* sessions opened so far
    nCalls            \* value and range calls made so far

runVars == <<statesFile, _states, _index, _seen, pc, loop, sigHandler,
             signal_received, raised, exc, hist, nSessions, nCalls>>

VARIABLES
    sdirs,        \* snapshot/<id>/ session directories and their .states.pt
    runs,         \* Run objects created by ws.run(tag, resume), in order
    wsClock       \* date_str of the Workspace objects opened so far: 1..wsClock

sessVars == <<sdirs, runs, wsClock>>

VARIABLES
    acc,          \* an Accumulator object
    added,        \* the values added to it since creation or the last clear()
    nClears       \* clear() calls made so far

accVars == <<acc, added, nClears>>

VARIABLES
    iterator,     \* the Iterator object: its constructor arguments, or NoIterator
    queue,        \* Iterator.queue, the items and exceptions put and not yet got
    pos,          \* Iterator.pos
    thread,       \* Iterator.thread: "none", "running", "finished" or "crashed"
    prodI,        \* the loop variable i of produce on the producer thread
    consumer,     \* where the consumer is: "idle", or "get" inside queue.get()
    got,          \* what the next() calls gave the consumer, in order
    nNext         \* number of next() calls made

itVars == <<iterator, queue, pos, thread, prodI, consumer, got, nNext>>

extVars == <<sessVars, accVars, itVars>>

vars == <<wsVars, runVars, sessVars, accVars, itVars>>

----------------------------------------------------------------------------
(* Bounds of the workspace machine *)
MaxOps == 6
MaxObjs == 4
MaxWs == 2
MaxDepth == 3

Names == {"main", "sub"}
\* snapshot tags, strings as sequences of character codes: "t", "u", "t.pt"
Dot == 46
PtSuffix == <<46, 112, 116>>
Tags == {<<116>>}
SnapTags == {<<116>>, <<117>>, <<116>> \o PtSuffix}

NoFile == [exists |-> FALSE, lines |-> {}]
File(lines) == [exists |-> TRUE, lines |-> lines]
None == [__none |-> TRUE]
NoSpec == [__nospec |-> TRUE]
NoSub == [k |-> "none"]

(* Parameter values: Python ints, strings, instances, Builder handles and  *)
(* dicts of ints and strings                                               *)
IntV(n) == [k |-> "int", n |-> n]
StrV(s) == [k |-> "str", s |-> s]
ObjV(i) == [k |-> "obj", id |-> i]
BldV(w, name) == [k |-> "builder", ws |-> w, name |-> name]
DictV(d) == [k |-> "dict", d |-> d]

EmptyDict == <<>>

(* dict.update: d with every key of u set to u's value *)
Update(d, u) ==
    [x \in (DOMAIN d) \cup (DOMAIN u) |-> IF x \in DOMAIN u THEN u[x] ELSE d[x]]

Without(d, keys) == [x \in (DOMAIN d) \ keys |-> d[x]]

----------------------------------------------------------------------------
(* The module registry: the configurable classes of tests/test_common.py,  *)
(* and L, a class declared like C that keeps the handle it is given.       *)
configurables == {"A", "B", "C", "D", "L"}

submodules(cls) == IF cls \in {"C", "D", "L"} THEN <<"sub">> ELSE <<>>

SlotSet(cls) == {submodules(cls)[i] : i \in 1..Len(submodules(cls))}

_build_subs(cls) == cls \notin {"C", "L"}

\* C.__init__ calls the handle it receives: self.sub = sub()
CallsSub(cls) == cls = "C"

Required(cls) ==
    CASE cls = "A" -> {}
      [] cls = "B" -> {"b"}
      [] cls = "C" -> {"sub", "c"}
      [] cls = "D" -> {"sub"}
      [] cls = "L" -> {"sub"}

Accepted(cls) ==
    CASE cls = "A" -> {"a"}
      [] cls = "B" -> {"a", "b"}
      [] cls = "C" -> {"sub", "c"}
      [] cls = "D" -> {"sub"}
      [] cls = "L" -> {"sub"}

Defaults(cls) == IF cls = "A" THEN [a |-> IntV(0)] ELSE EmptyDict

IsLeaf(cls) == submodules(cls) = <<>>

----------------------------------------------------------------------------
(* Configuration table.  An entry is (cls_name, cfg); alias # 0 says that  *)
(* cfg is the config dict of instance objs[alias] (register with an        *)
(* instance stores module.config._dict(), the dict itself).                *)
Entry(cls, cfg) == [cls |-> cls, cfg |-> cfg, alias |-> 0]
AliasEntry(cls, i) == [cls |-> cls, cfg |-> EmptyDict, alias |-> i]

EntryCfg(ent, heap) == IF ent.alias = 0 THEN ent.cfg ELSE heap[ent.alias].config

\* Configuration._dict: the dict held by the Configuration, not a copy
_dict(heap, i) == heap[i].config

\* Workspace.config_dict: name -> {'__module': cls_name, **cfg}
config_dict(modules, heap) ==
    [n \in DOMAIN modules |->
        Update([__module |-> StrV(modules[n].cls)], EntryCfg(modules[n], heap))]

\* nested mappings are left out of the file
TomlDump_Scalars(cd) ==
    UNION {{<<n, <<key>>, cd[n][key]>> : key \in {x \in DOMAIN cd[n] : cd[n][x].k # "dict"}}
           : n \in DOMAIN cd}

\* toml.dump: one [section] per name with one "key = value" line per scalar
\* parameter, and one [name.key] subsection with its own lines per nested
\* mapping; a line is <<section name, path of keys, value>>
TomlDump(cd) ==
    UNION {UNION {IF cd[n][key].k = "dict"
                  THEN {<<n, <<key>>, [k |-> "table"]>>}
                       \cup {<<n, <<key, sk>>, cd[n][key].d[sk]>> : sk \in DOMAIN cd[n][key].d}
                  ELSE {<<n, <<key>>, cd[n][key]>>}
                  : key \in DOMAIN cd[n]} : n \in DOMAIN cd}

\* the value that the lines of section n give to key
TomlValue(lines, n, key) ==
    LET top == CHOOSE t \in lines : t[1] = n /\ t[2] = <<key>> IN
    IF top[3].k = "table"
    THEN DictV([sk \in {t[2][2] : t \in {u \in lines : u[1] = n /\ Len(u[2]) = 2
                                                          /\ u[2][1] = key}} |->
                  (CHOOSE t \in lines : t[1] = n /\ t[2] = <<key, sk>>)[3]])
    ELSE top[3]

\* toml.load: the sections of the file, each a dict of its lines
TomlLoad(file) ==
    [n \in {t[1] : t \in file.lines} |->
        [key \in {t[2][1] : t \in {u \in file.lines : u[1] = n}} |->
            TomlValue(file.lines, n, key)]]

\* Workspace.__init__, lines 45-53: the conf the new Workspace starts from
InitConf(file, cd) ==
    IF ~file.exists
    THEN (IF cd = None THEN EmptyDict ELSE cd)
    ELSE (IF cd = None THEN TomlLoad(file) ELSE Update(TomlLoad(file), cd))

\* Workspace.__init__, lines 54-60: conf split into (cls_name, cfg) entries
ModulesOf(conf) ==
    [n \in DOMAIN conf |-> Entry(conf[n]["__module"].s, Without(conf[n], {"__module"}))]

\* Workspace.__init__(path, config_dict=cd)
WorkspaceInit(file, cd, origin) ==
    [modules |-> ModulesOf(InitConf(file, cd)),
     _config_dict |-> InitConf(file, cd),
     origin |-> origin,
     env |-> cd,
     inWith |-> FALSE]

----------------------------------------------------------------------------
(* Workspace.build *)
\* every failure surfaces as a KeyError
Fail_KeyError(e, heap) == [err |-> "KeyError", heap |-> heap, id |-> 0]

Fail(e, heap) == [err |-> e, heap |-> heap, id |-> 0]

\* Workspace._try_get_module: the entry of name in the table as it is now
NotConfigured == [cls |-> "NotConfiguredError", cfg |-> EmptyDict, alias |-> 0]

\* the table the Workspace was created with, not the one it has now
_try_get_module_Stale(W, w, name) ==
    IF name \notin DOMAIN W[w].modules THEN NotConfigured
    ELSE IF name \in DOMAIN W[w]._config_dict THEN ModulesOf(W[w]._config_dict)[name]
    ELSE W[w].modules[name]

_try_get_module(W, w, name) ==
    IF name \in DOMAIN W[w].modules THEN W[w].modules[name] ELSE NotConfigured

SlotName_Slot(cfg, sub) == sub

\* cfg.get(sub) or sub
SlotName(cfg, sub) ==
    IF sub \in DOMAIN cfg /\ cfg[sub].k = "str" /\ cfg[sub].s # "" THEN cfg[sub].s ELSE sub

\* Builder(self, name)
Builder(w, name) == BldV(w, name)

\* the constructor call cls(**cfg) binds its arguments or raises TypeError
BindsArgs(cls, cfg) == Required(cls) \subseteq DOMAIN cfg /\ DOMAIN cfg \subseteq Accepted(cls)

SpecOf_Always(kwargs) == kwargs

\* obj.spec = Configuration(kwargs), set only when kwargs is non-empty
SpecOf(kwargs) == IF kwargs = EmptyDict THEN NoSpec ELSE kwargs

NewObj(cls, cfg, sub, w, name, kwargs) ==
    [cls |-> cls, config |-> Update(Defaults(cls), cfg), sub |-> sub,
     ws |-> w, build_name |-> name, spec |-> SpecOf(kwargs)]

RECURSIVE build(_, _, _, _, _, _)
RECURSIVE ResolveSubs(_, _, _, _, _, _, _)

\* lines 154-159: the loop over cls.submodules
ResolveSubs(W, w, cls, slots, cfg, heap, depth) ==
    IF slots = <<>> THEN [err |-> "", heap |-> heap, cfg |-> cfg]
    ELSE LET sub == Head(slots) IN
         IF sub \notin DOMAIN cfg \/ cfg[sub].k = "str"
         THEN IF _build_subs(cls)
              THEN LET r == build(W, w, SlotName(cfg, sub), EmptyDict, heap, depth + 1) IN
                   IF r.err # "" THEN [err |-> r.err, heap |-> heap, cfg |-> cfg]
                   ELSE ResolveSubs(W, w, cls, Tail(slots),
                                    Update(cfg, [x \in {sub} |-> ObjV(r.id)]), r.heap, depth)
              ELSE ResolveSubs(W, w, cls, Tail(slots),
                               Update(cfg, [x \in {sub} |-> Builder(w, SlotName(cfg, sub))]),
                               heap, depth)
         ELSE ResolveSubs(W, w, cls, Tail(slots), cfg, heap, depth)

\* no constructor calls the handle it is given
Construct_KeepsHandle(W, w, name, cls, cfg, kwargs, heap, depth) ==
    IF ~BindsArgs(cls, cfg) THEN Fail("TypeError", heap)
    ELSE LET sv == IF "sub" \in DOMAIN cfg /\ "sub" \in SlotSet(cls) THEN cfg["sub"] ELSE NoSub
             h2 == Append(heap, NewObj(cls, cfg, sv, w, name, kwargs))
         IN [err |-> "", heap |-> h2, id |-> Len(h2)]

\* lines 161-167: obj = cls(**cfg); obj.ws, obj.build_name, obj.spec
Construct(W, w, name, cls, cfg, kwargs, heap, depth) ==
    IF ~BindsArgs(cls, cfg) THEN Fail("TypeError", heap)
    ELSE IF CallsSub(cls)
    THEN IF cfg["sub"].k # "builder" THEN Fail("TypeError", heap)
         ELSE LET r == build(W, cfg["sub"].ws, cfg["sub"].name, EmptyDict, heap, depth + 1) IN
              IF r.err # "" THEN Fail(r.err, heap)
              ELSE LET h2 == Append(r.heap, NewObj(cls, cfg, ObjV(r.id), w, name, kwargs))
                   IN [err |-> "", heap |-> h2, id |-> Len(h2)]
    ELSE LET sv == IF "sub" \in DOMAIN cfg /\ "sub" \in SlotSet(cls) THEN cfg["sub"] ELSE NoSub
             h2 == Append(heap, NewObj(cls, cfg, sv, w, name, kwargs))
         IN [err |-> "", heap |-> h2, id |-> Len(h2)]

build(W, w, name, kwargs, heap, depth) ==
    IF depth > MaxDepth THEN Fail("RecursionError", heap)
    ELSE IF _try_get_module(W, w, name) = NotConfigured THEN Fail("NotConfiguredError", heap)
    ELSE LET ent == _try_get_module(W, w, name)
             cfg == Update(EntryCfg(ent, heap), kwargs)
         IN IF ent.cls \notin configurables THEN Fail("KeyError", heap)
            ELSE LET r == ResolveSubs(W, w, ent.cls, submodules(ent.cls), cfg, heap, depth) IN
                 IF r.err # "" THEN Fail(r.err, heap)
                 ELSE Construct(W, w, name, ent.cls, r.cfg, kwargs, r.heap, depth)

----------------------------------------------------------------------------
(* What an instance is configured with: its class, its parameters, its     *)
(* build-spec and, through its submodule slot, the same of its submodule.  *)
(* A Builder handle is seen as the name it is bound to.                    *)
RECURSIVE View(_, _)
View(heap, i) ==
    [cls |-> heap[i].cls,
     params |-> Without(heap[i].config, SlotSet(heap[i].cls)),
     spec |-> heap[i].spec,
     sub |-> IF heap[i].sub.k = "obj" THEN View(heap, heap[i].sub.id)
             ELSE IF heap[i].sub.k = "builder" THEN [handle |-> heap[i].sub.name]
             ELSE NoSub]

\* history of the instances heap[Len(old)+1 .. Len(heap)] made by one call
Stamp(old, heap, root, how, tab, src, fresh) ==
    [i \in 1..Len(heap) |->
        IF i <= Len(old) THEN old[i]
        ELSE [view |-> View(heap, i),
              tab |-> tab,
              how |-> IF i = root THEN how ELSE "sub",
              src |-> IF i = root THEN src ELSE 0,
              fresh |-> IF i = root THEN fresh ELSE FALSE]]

----------------------------------------------------------------------------
(* Inputs *)
RegInputs ==
    {<<"main", "C", EmptyDict>>, <<"main", "D", EmptyDict>>, <<"main", "L", EmptyDict>>,
     <<"sub", "B", [b |-> IntV(2)]>>, <<"sub", "B", [b |-> IntV(4)]>>}

InstKwargs == {EmptyDict, [b |-> IntV(4)]}

Overrides == {EmptyDict, [c |-> IntV(3)], [b |-> IntV(4)]}

WsIds == 1..Len(wss)
ObjIds == 1..Len(objs)

\* str.endswith
endswith(str, suffix) ==
    /\ Len(str) >= Len(suffix)
    /\ SubSeq(str, Len(str) - Len(suffix) + 1, Len(str)) = suffix

\* Workspace.snapshot(build_name + rest): a file of the snapshot directory
SnapshotFile(name, rest) == [dir |-> "snapshot", name |-> name, rest |-> rest]

\* pathlib.Path(tag): a path relative to the working directory
CwdFile(tag) == [dir |-> "cwd", name |-> "", rest |-> tag]

\* load reads <name>.pt whatever the tag
LoadPath_NoTag(name, tag) == SnapshotFile(name, PtSuffix)

\* Workspace.load, lines 189-194, with a tag and no path
LoadPath(name, tag) == SnapshotFile(name, <<Dot>> \o tag \o PtSuffix)

\* Workspace.save, lines 178-181
SavePath(build_name, tag) ==
    IF ~endswith(tag, PtSuffix)
    THEN SnapshotFile(build_name, <<Dot>> \o tag \o PtSuffix)
    ELSE CwdFile(tag)

SnapKeys ==
    {SavePath(n, t) : n \in Names, t \in SnapTags}
        \cup {LoadPath(n, t) : n \in Names, t \in SnapTags}
        \cup {LoadPath_NoTag(n, t) : n \in Names, t \in SnapTags}

----------------------------------------------------------------------------
(* Workspace operations *)

\* Workspace.register(name, cls, **kwargs) with a class
Register(w, name, cls, kwargs) ==
    /\ nOps < MaxOps
    /\ wss[w].origin # "loaded"
    /\ wss' = [wss EXCEPT ![w].modules = Update(@, [x \in {name} |-> Entry(cls, kwargs)])]
    /\ nOps' = nOps + 1
    /\ wsErr' = ""
    /\ UNCHANGED <<objs, built, configToml, snapshots>>
    /\ UNCHANGED <<runVars, extVars>>

\* Workspace.register(name, module, **kwargs) with an instance
RegisterInstance(w, name, i, kwargs) ==
    /\ nOps < MaxOps
    /\ wss[w].origin # "loaded"
    /\ IsLeaf(objs[i].cls)
    /\ objs' = [objs EXCEPT ![i].config = Update(_dict(objs, i), kwargs)]
    /\ wss' = [wss EXCEPT ![w].modules =
                  Update(@, [x \in {name} |-> AliasEntry(objs[i].cls, i)])]
    /\ nOps' = nOps + 1
    /\ wsErr' = ""
    /\ UNCHANGED <<built, configToml, snapshots>>
    /\ UNCHANGED <<runVars, extVars>>

\* Workspace.write, also Workspace.__exit__
Write(w) ==
    /\ nOps < MaxOps
    /\ wss[w].origin # "loaded"
    /\ configToml' = File(TomlDump(config_dict(wss[w].modules, objs)))
    /\ wsErr' = ""
    /\ UNCHANGED <<wss, objs, built, snapshots>>
    /\ nOps' = nOps + 1
    /\ UNCHANGED <<runVars, extVars>>

\* fret.workspace(path): a new Workspace object on the same directory
OpenWorkspace ==
    /\ nOps < MaxOps
    /\ Len(wss) < MaxWs
    /\ wss' = Append(wss, WorkspaceInit(configToml, None, "opened"))
    /\ wsErr' = ""
    /\ UNCHANGED <<objs, built, configToml, snapshots>>
    /\ nOps' = nOps + 1
    /\ UNCHANGED <<runVars, extVars>>

\* Workspace.build(name, **kwargs) called by the application
Build(w, name, kwargs) ==
    LET r == build(wss, w, name, kwargs, objs, 0) IN
    /\ nOps < MaxOps
    /\ wss[w].origin # "loaded"
    /\ Len(r.heap) <= MaxObjs
    /\ wsErr' = r.err
    /\ objs' = r.heap
    /\ built' = Stamp(built, r.heap, r.id, "build", config_dict(wss[w].modules, objs), 0, FALSE)
    /\ UNCHANGED <<wss, configToml, snapshots>>
    /\ nOps' = nOps + 1
    /\ UNCHANGED <<runVars, extVars>>

\* Builder.__call__() on the handle that instance i holds
CallBuilder(i) ==
    /\ nOps < MaxOps
    /\ objs[i].sub.k = "builder"
    /\ LET b == objs[i].sub
           r == build(wss, b.ws, b.name, EmptyDict, objs, 0) IN
       /\ Len(r.heap) <= MaxObjs
       /\ wsErr' = r.err
       /\ objs' = r.heap
       /\ built' = Stamp(built, r.heap, r.id, "builder",
                         config_dict(wss[b.ws].modules, objs), i, FALSE)
    /\ UNCHANGED <<wss, configToml, snapshots>>
    /\ nOps' = nOps + 1
    /\ UNCHANGED <<runVars, extVars>>

SaveArgs_Dropped(obj) == EmptyDict

\* line 176: args = obj.spec._dict() if hasattr(obj, 'spec') else dict()
SaveArgs(obj) == IF obj.spec = NoSpec THEN EmptyDict ELSE obj.spec

\* Workspace.save(obj, tag) with a bare tag
Save(i, tag) ==
    LET w == objs[i].ws IN
    /\ nOps < MaxOps
    /\ snapshots' = [snapshots EXCEPT ![SavePath(objs[i].build_name, tag)] =
           [exists |-> TRUE,
            env |-> config_dict(wss[w].modules, objs),
            args |-> SaveArgs(objs[i]),
            of |-> i]]
    /\ wsErr' = ""
    /\ UNCHANGED <<wss, objs, built, configToml>>
    /\ nOps' = nOps + 1
    /\ UNCHANGED <<runVars, extVars>>

\* line 196: last_ws = Workspace(self._path, config_dict=state['env'])
LoadWorkspace(file, state) == WorkspaceInit(file, state.env, "loaded")

\* Workspace.load(name, tag)
Load(name, tag) ==
    LET state == snapshots[LoadPath(name, tag)]
        last_ws == LoadWorkspace(configToml, state)
        W == Append(wss, last_ws)
        r == build(W, Len(W), name, state.args, objs, 0)
    IN
    /\ nOps < MaxOps
    /\ state.exists
    /\ Len(wss) < MaxWs
    /\ Len(r.heap) <= MaxObjs
    /\ wsErr' = r.err
    /\ IF r.err = ""
       THEN /\ wss' = W
            /\ objs' = r.heap
            /\ built' = Stamp(built, r.heap, r.id, "load",
                              config_dict(last_ws.modules, objs), state.of,
                              state.env = built[state.of].tab)
       ELSE UNCHANGED <<wss, objs, built>>
    /\ UNCHANGED <<configToml, snapshots>>
    /\ nOps' = nOps + 1
    /\ UNCHANGED <<runVars, extVars>>

\* Workspace.register(name, module) with a str as module: it is no class, so
\* line 120 reads module.config and raises AttributeError
RegisterTypeName(w, name, typeName) ==
    /\ nOps < MaxOps
    /\ wsErr' = "AttributeError"
    /\ nOps' = nOps + 1
    /\ UNCHANGED <<wss, objs, built, configToml, snapshots>>
    /\ UNCHANGED <<runVars, extVars>>

\* with ws: ... is entered, Workspace.__enter__
EnterWorkspace(w) ==
    /\ nOps < MaxOps
    /\ ~wss[w].inWith
    /\ wss' = [wss EXCEPT ![w].inWith = TRUE]
    /\ wsErr' = ""
    /\ nOps' = nOps + 1
    /\ UNCHANGED <<objs, built, configToml, snapshots>>
    /\ UNCHANGED <<runVars, extVars>>

__exit___OnSuccess(W, w, heap, file, e) ==
    IF e = "" THEN File(TomlDump(config_dict(W[w].modules, heap))) ELSE file

\* Workspace.__exit__, lines 133-134: self.write(), whatever exc_type is;
\* the config.toml it leaves
__exit__(W, w, heap, file, e) == File(TomlDump(config_dict(W[w].modules, heap)))

\* the with block ends, normally (e = "") or by the exception e
ExitWorkspace(w, e) ==
    /\ wss[w].inWith
    /\ wss' = [wss EXCEPT ![w].inWith = FALSE]
    /\ configToml' = __exit__(wss, w, objs, configToml, e)
    /\ wsErr' = e
    /\ UNCHANGED <<objs, built, snapshots, nOps>>
    /\ UNCHANGED <<runVars, extVars>>

(* Inputs of the build machine: tables with named and unnamed submodule    *)
(* slots, an undecorated class U, overrides holding names and instances    *)
BuildTables ==
    LET MainConfs ==
            {Update([__module |-> StrV(c)], s) :
                c \in {"C", "D", "L"},
                s \in {EmptyDict, [sub |-> StrV("alt")], [sub |-> StrV("")]}}
        SubConfs == {[__module |-> StrV("B"), b |-> IntV(2)]}
        AltConfs == {[__module |-> StrV("B"), b |-> IntV(4)]}
    IN
    {Update([main |-> m], Update(s, a)) :
        m \in MainConfs,
        s \in {EmptyDict} \cup {[sub |-> x] : x \in SubConfs},
        a \in {EmptyDict} \cup {[alt |-> x] : x \in AltConfs}}

SlotOverrides ==
    {EmptyDict, [c |-> IntV(3)], [sub |-> StrV("alt")], [c |-> IntV(3), sub |-> StrV("alt")]}
        \cup {[sub |-> ObjV(i)] : i \in {j \in 1..Len(objs) : IsLeaf(objs[j].cls)}}

BuildNames == {"main", "sub", "alt", "none"}

MaxBuildOps == 4

NoSnapshot == [exists |-> FALSE, env |-> EmptyDict, args |-> EmptyDict, of |-> 0]

\* the Workspace is created with one of the tables: Workspace(path, config_dict=conf)
TableInit(tables) ==
    /\ \E conf \in tables : wss = <<WorkspaceInit(NoFile, conf, "live")>>
    /\ objs = <<>>
    /\ built = <<>>
    /\ configToml = NoFile
    /\ snapshots = [key \in SnapKeys |-> NoSnapshot]
    /\ wsErr = ""
    /\ nOps = 0

(* Inputs of the config.toml machine: tables and register calls with      *)
(* scalar and nested-mapping parameters                                    *)
MaxTomlOps == 4

NestedB == [b |-> DictV([x |-> IntV(1), y |-> StrV("s")])]

TomlTables ==
    {EmptyDict,
     [main |-> [__module |-> StrV("A")]],
     [main |-> [__module |-> StrV("D")], sub |-> Update([__module |-> StrV("B")], NestedB)]}

(* Inputs of the snapshot machine *)
MaxSnapOps == 4

SnapTables ==
    {[sub |-> [__module |-> StrV("B"), b |-> IntV(2)]],
     [main |-> [__module |-> StrV("D")], sub |-> [__module |-> StrV("B"), b |-> IntV(2)]]}

(* Inputs of the recursion machine: tables whose submodule slots name      *)
(* entries that name each other                                            *)
MaxRecOps == 2

RecNames == {"main", "sub", "alt"}

RecTables ==
    LET RecMainConfs ==
            {Update(m, s) :
                m \in {[__module |-> StrV("C"), c |-> IntV(3)], [__module |-> StrV("D")],
                       [__module |-> StrV("L")]},
                s \in {EmptyDict, [sub |-> StrV("main")], [sub |-> StrV("alt")]}}
        RecSubConfs ==
            {[__module |-> StrV("B"), b |-> IntV(2)], [__module |-> StrV("D")],
             [__module |-> StrV("D"), sub |-> StrV("main")]}
        RecAltConfs ==
            {[__module |-> StrV("D"), sub |-> StrV("sub")], [__module |-> StrV("L"), sub |-> StrV("main")]}
    IN
    {Update([main |-> m, sub |-> x], a) :
        m \in RecMainConfs, x \in RecSubConfs,
        a \in {EmptyDict} \cup {[alt |-> y] : y \in RecAltConfs}}

WsInit ==
    /\ wss = <<WorkspaceInit(NoFile, None, "live")>>
    /\ objs = <<>>
    /\ built = <<>>
    /\ configToml = NoFile
    /\ snapshots = [key \in SnapKeys |-> NoSnapshot]
    /\ wsErr = ""
    /\ nOps = 0

Next ==
    \/ \E w \in WsIds, r \in RegInputs : Register(w, r[1], r[2], r[3])
    \/ \E w \in WsIds, name \in Names, i \in ObjIds, kw \in InstKwargs :
          RegisterInstance(w, name, i, kw)
    \/ \E w \in WsIds : Write(w)
    \/ OpenWorkspace
    \/ \E w \in WsIds, name \in Names, kw \in Overrides : Build(w, name, kw)
    \/ \E i \in ObjIds : CallBuilder(i)
    \/ \E i \in ObjIds, tag \in Tags : Save(i, tag)
    \/ \E name \in Names, tag \in Tags : Load(name, tag)

----------------------------------------------------------------------------
(* The Run machine: one tag, sessions opened with resume=True.             *)

(* Bounds of the Run machine *)
MaxSessions == 2
MaxCalls == 3
MaxIndex == 1
LoopN == 2

Digits == <<"0", "1", "2", "3", "4", "5">>
RunNames == {Digits[i + 1] : i \in 0..MaxIndex} \cup {"x", "r"}
NoName == "None"

ValueDefaults == {3, 5}
ValueNames == {NoName, "x"}
Idx == 0..(LoopN + 1)

StateV(start, breakable) == [k |-> "state", start |-> start, _breakable |-> breakable]

\* Range.__init__(*args, breakable)
Range(args, breakable) ==
    LET start == IF Len(args) = 1 THEN 0 ELSE args[1]
        stop == IF Len(args) = 1 THEN args[1] ELSE args[2]
        step == IF Len(args) = 3 THEN args[3] ELSE 1
    IN [k |-> "range", start |-> start, step |-> step, stop |-> stop,
        _start |-> start, _breakable |-> breakable]

state_dict_Initial(obj) == StateV(obj._start, obj._breakable)

\* @stateful('start', '_breakable'): state_dict and load_state_dict
state_dict(obj) == StateV(obj.start, obj._breakable)

load_state_dict_Nothing(obj, state) == obj

load_state_dict(obj, state) ==
    [obj EXCEPT !.start = state.start, !._breakable = state._breakable]

\* load_state_dict reads state['start']: a state that is no dict raises
Subscriptable(state) == state.k = "state"

Cursor_Current(i, step, breakable) == i

\* Range.__iter__, line 392: the cursor stored before i is yielded
Cursor(i, step, breakable) == i + (IF breakable THEN 0 ELSE step)

\* membership of the built-in range(start, stop, step)
InRange(v, stop, step) == (step > 0 /\ v < stop) \/ (step < 0 /\ v > stop)

ExtractState_Live(e) == e

\* Run.__exit__, lines 283-285: a live stateful object gives its state_dict
ExtractState(e) == IF e.k = "range" THEN state_dict(e) ELSE e

ExtractAll(states) == [n \in DOMAIN states |-> ExtractState(states[n])]

\* Run.__exit__ returns None: the exception is not suppressed
ExitSuppresses == FALSE

LoadsPersisted_Never(states, seen, nm) == FALSE

\* lines 296 and 307: a persisted entry is used once per session
LoadsPersisted(states, seen, nm) == nm \in DOMAIN states /\ nm \notin seen

\* nonbreak, line 262: signal.signal(signal.SIGINT, handler)
NonbreakHandler == "nonbreak"

\* lines 293-295 / 304-306: the name of a call, positional when omitted
CallName(name) == IF name = NoName THEN Digits[_index + 1] ELSE name

NextIndex_Stuck(name) == _index

NextIndex(name) == IF name = NoName THEN _index + 1 ELSE _index

NoLeft == [how |-> "none"]
NoLoop == [name |-> "", wrap |-> FALSE, started |-> FALSE, nxt |-> 0, stop |-> 0,
           step |-> 1, cur |-> 0]
NoRet == [k |-> "noret"]
NoReg == [name |-> ""]

\* the range loop the exactly-once property is about
\* the program of the nonbreak claim: for i in nonbreak(run.range(LoopN, name='r')),
\* once per session
IsCleanLoop(kind, wrap, args, name) ==
    kind = "range" /\ wrap /\ args = <<LoopN>> /\ name = "r"

HistInit ==
    [entered |-> EmptyDict,
     calls |-> [n \in RunNames |-> 0],
     firstRet |-> [n \in RunNames |-> NoRet],
     firstArg |-> [n \in RunNames |-> 0],
     reg |-> NoReg,
     autos |-> <<>>,
     args |-> <<0, 0, 1>>,
     ended |-> FALSE,
     left |-> NoLeft,
     resumes |-> NoLeft,
     ys |-> <<>>,
     execs |-> [i \in Idx |-> 0],
     clean |-> TRUE,
     exhausted |-> FALSE,
     sigAt |-> -1]

Bump(calls, n) == [calls EXCEPT ![n] = IF @ < 2 THEN @ + 1 ELSE @]

\* how the loop in progress was left, kept for the sessions that follow
LeftBy(how) ==
    [how |-> how, i |-> loop.cur, step |-> _states[loop.name].step,
     stop |-> _states[loop.name].stop,
     name |-> loop.name, kind |-> IF _states[loop.name]._breakable THEN "brange" ELSE "range",
     wrap |-> loop.wrap]

InLoop == pc \in {"iter", "body", "after", "gap"}

\* an exception e leaves the scope: Run.__exit__ persists, e reaches the caller
Leave(e, how) ==
    /\ statesFile' = [exists |-> TRUE, dict |-> ExtractAll(_states)]
    /\ _states' = ExtractAll(_states)
    /\ pc' = "closed"
    /\ loop' = NoLoop
    /\ raised' = e
    /\ exc' = IF ExitSuppresses THEN "" ELSE e
    /\ signal_received' = FALSE
    /\ hist' = [hist EXCEPT !.left = IF InLoop /\ how # "" THEN LeftBy(how) ELSE @,
                            !.resumes = NoLeft, !.ys = <<>>, !.sigAt = -1]
    /\ UNCHANGED <<_index, _seen, nSessions>>

\* ws.run(tag) as a with statement: Run.__init__ and Run.__enter__
EnterRun ==
    /\ pc = "closed"
    /\ nSessions < MaxSessions
    /\ nSessions' = nSessions + 1
    /\ _states' = IF statesFile.exists THEN statesFile.dict ELSE EmptyDict
    /\ _index' = 0
    /\ _seen' = {}
    /\ pc' = "open"
    /\ raised' = ""
    /\ exc' = ""
    /\ hist' = [hist EXCEPT !.entered = IF statesFile.exists THEN statesFile.dict ELSE EmptyDict,
                            !.calls = [n \in RunNames |-> 0],
                            !.firstRet = [n \in RunNames |-> NoRet],
                            !.firstArg = [n \in RunNames |-> 0],
                            !.reg = NoReg,
                            !.autos = <<>>]
    /\ UNCHANGED <<statesFile, loop, sigHandler, signal_received, nCalls>>
    /\ UNCHANGED <<wsVars, extVars>>

\* the interpreter is started again: the default SIGINT handler is in force
RestartProcess ==
    /\ pc = "closed"
    /\ sigHandler # "default"
    /\ sigHandler' = "default"
    /\ UNCHANGED <<statesFile, _states, _index, _seen, pc, loop, signal_received,
                   raised, exc, hist, nSessions, nCalls>>
    /\ UNCHANGED <<wsVars, extVars>>

\* the with block ends normally: Run.__exit__
ExitRun ==
    /\ pc = "open"
    /\ Leave("", "")
    /\ UNCHANGED <<sigHandler, nCalls>>
    /\ UNCHANGED <<wsVars, extVars>>

\* Run.value(value, name)
Value(d, name) ==
    LET nm == CallName(name) IN
    /\ pc = "open"
    /\ name = NoName => _index < MaxIndex
    /\ _index' = NextIndex(name)
    /\ IF LoadsPersisted(_states, _seen, nm)
       THEN /\ _seen' = _seen \cup {nm}
            /\ UNCHANGED _states
            /\ hist' = [hist EXCEPT !.calls = Bump(@, nm),
                                    !.firstRet[nm] = IF hist.calls[nm] = 0 THEN _states[nm] ELSE @,
                                    !.firstArg[nm] = IF hist.calls[nm] = 0 THEN d ELSE @,
                                    !.autos = IF name = NoName THEN Append(@, nm) ELSE @]
       ELSE /\ _states' = Update(_states, [x \in {nm} |-> IntV(d)])
            /\ UNCHANGED _seen
            /\ hist' = [hist EXCEPT !.calls = Bump(@, nm),
                                    !.firstRet[nm] = IF hist.calls[nm] = 0 THEN IntV(d) ELSE @,
                                    !.firstArg[nm] = IF hist.calls[nm] = 0 THEN d ELSE @,
                                    !.autos = IF name = NoName THEN Append(@, nm) ELSE @]
    /\ nCalls < MaxCalls
    /\ nCalls' = nCalls + 1
    /\ UNCHANGED <<statesFile, pc, loop, sigHandler, signal_received, raised, exc,
                   nSessions>>
    /\ UNCHANGED <<wsVars, extVars>>

\* for i in [nonbreak](run.range(*args, name) | run.brange(*args, name)):
\* Run.register of the new Range, then iter() of the loop
StartLoop(kind, wrap, args, name) ==
    LET nm == CallName(name)
        obj == Range(args, kind = "brange")
        restore == LoadsPersisted(_states, _seen, nm)
    IN
    /\ pc = "open"
    /\ nCalls < MaxCalls
    /\ name = NoName => _index < MaxIndex
    /\ nCalls' = nCalls + 1
    /\ IF restore /\ ~Subscriptable(_states[nm])
       THEN /\ Leave("TypeError", "")
            /\ UNCHANGED sigHandler
       ELSE LET r == IF restore THEN load_state_dict(obj, _states[nm]) ELSE obj IN
            /\ _index' = NextIndex(name)
            /\ _seen' = _seen \cup {nm}
            /\ _states' = Update(_states, [x \in {nm} |-> r])
            /\ pc' = "iter"
            /\ loop' = [name |-> nm, wrap |-> wrap, started |-> FALSE, nxt |-> 0,
                        stop |-> r.stop, step |-> r.step, cur |-> 0]
            /\ hist' = [hist EXCEPT
                           !.calls = Bump(@, nm),
                           !.reg = [name |-> nm, first |-> hist.calls[nm] = 0,
                                    start |-> r.start, _breakable |-> r._breakable,
                                    made |-> obj],
                           !.autos = IF name = NoName THEN Append(@, nm) ELSE @,
                           !.resumes = IF restore /\ hist.left # NoLeft /\ hist.left.name = nm
                                       THEN hist.left ELSE NoLeft,
                           !.left = IF hist.left # NoLeft /\ hist.left.name = nm THEN NoLeft ELSE @,
                           !.ys = <<>>,
                           !.args = <<obj.start, obj.stop, obj.step>>,
                           !.ended = FALSE,
                           !.clean = @ /\ IsCleanLoop(kind, wrap, args, name)
                                       /\ hist.calls[nm] = 0,
                           !.execs = IF hist.clean /\ IsCleanLoop(kind, wrap, args, name)
                                        /\ hist.calls[nm] = 0
                                     THEN @ ELSE [i \in Idx |-> 0]]
            /\ UNCHANGED <<statesFile, sigHandler, signal_received, raised, exc, nSessions>>
    /\ UNCHANGED <<wsVars, extVars>>

\* next() on the generator of Range.__iter__: yields i or is exhausted
RangeNext ==
    LET r == _states[loop.name]
        i == IF loop.started THEN loop.nxt ELSE r.start
    IN IF InRange(i, loop.stop, loop.step)
       THEN /\ _states' = [_states EXCEPT ![loop.name].start = Cursor(i, r.step, r._breakable)]
            /\ loop' = [loop EXCEPT !.started = TRUE, !.cur = i, !.nxt = i + loop.step]
            /\ pc' = "body"
            /\ hist' = [hist EXCEPT !.ys = Append(@, i)]
       ELSE /\ pc' = "open"
            /\ loop' = NoLoop
            /\ hist' = [hist EXCEPT !.exhausted = @ \/ hist.clean, !.ended = TRUE,
                                    !.left = IF @ = NoLeft \/ @.name = loop.name
                                             THEN LeftBy("finished") ELSE @,
                                    !.sigAt = -1]
            /\ UNCHANGED _states

\* the for statement asks a plain Range loop for its next item
NextPlain ==
    /\ pc \in {"iter", "after"}
    /\ ~loop.wrap
    /\ RangeNext
    /\ UNCHANGED <<statesFile, _index, sigHandler, _seen, signal_received, raised, exc, nSessions, nCalls>>
    /\ UNCHANGED <<wsVars, extVars>>

\* nonbreak, lines 264-266: resumed after the yield, it restores the handler
\* and calls _sigint_handler(signal_received) when a signal was recorded;
\* that call raises KeyboardInterrupt or, given one argument, TypeError
NonbreakResume ==
    /\ pc = "after"
    /\ loop.wrap
    /\ sigHandler' = "default"
    /\ IF signal_received
       THEN /\ \E e \in {"KeyboardInterrupt", "TypeError"} : Leave(e, "deferred")
            /\ UNCHANGED nCalls
       ELSE /\ pc' = "gap"
            /\ UNCHANGED <<statesFile, _states, _index, _seen, loop, signal_received,
                           raised, exc, hist, nSessions, nCalls>>
    /\ UNCHANGED <<wsVars, extVars>>

\* nonbreak, lines 262-263: installs its handler, then next(it); when it is
\* exhausted the generator ends and the handler stays installed
NonbreakNext ==
    /\ pc \in {"iter", "gap"}
    /\ loop.wrap
    /\ IF InRange(IF loop.started THEN loop.nxt ELSE _states[loop.name].start,
                  loop.stop, loop.step)
       THEN /\ RangeNext
            /\ sigHandler' = NonbreakHandler
            /\ UNCHANGED signal_received
       ELSE /\ RangeNext
            /\ sigHandler' = IF NonbreakHandler = "nonbreak" THEN "stale" ELSE NonbreakHandler
            /\ signal_received' = FALSE
    /\ UNCHANGED <<statesFile, _index, _seen, raised, exc, nSessions, nCalls>>
    /\ UNCHANGED <<wsVars, extVars>>

\* the loop body runs to its end
BodyComplete ==
    /\ pc = "body"
    /\ pc' = "after"
    /\ hist' = [hist EXCEPT !.execs[loop.cur] = IF hist.clean THEN @ + 1 ELSE @]
    /\ UNCHANGED <<statesFile, _states, _index, _seen, loop, sigHandler, signal_received,
                   raised, exc, nSessions, nCalls>>
    /\ UNCHANGED <<wsVars, extVars>>

\* break: the loop is left, a nonbreak generator is dropped where it is
Break ==
    /\ pc \in {"body", "after"}
    /\ pc' = "open"
    /\ loop' = NoLoop
    /\ sigHandler' = IF loop.wrap THEN "stale" ELSE sigHandler
    /\ signal_received' = FALSE
    /\ hist' = [hist EXCEPT !.left = LeftBy(IF pc = "body" THEN "break-body" ELSE "break-after"),
                            !.resumes = NoLeft, !.ys = <<>>, !.clean = FALSE,
                            !.execs = [i \in Idx |-> 0], !.sigAt = -1]
    /\ UNCHANGED <<statesFile, _states, _index, _seen, raised, exc, nSessions, nCalls>>
    /\ UNCHANGED <<wsVars, extVars>>

\* SIGINT is delivered to the process while a Run scope is open
Sigint ==
    /\ pc # "closed"
    /\ CASE sigHandler = "default" ->
              /\ Leave("KeyboardInterrupt",
                       CASE pc = "body" -> "interrupt-body"
                         [] pc = "after" -> "interrupt-after"
                         [] OTHER -> "interrupt-next")
              /\ UNCHANGED <<sigHandler, nCalls>>
         [] sigHandler = "nonbreak" ->
              /\ ~signal_received
              /\ signal_received' = TRUE
              /\ hist' = [hist EXCEPT !.sigAt = loop.cur]
              /\ UNCHANGED <<statesFile, _states, _index, _seen, pc, loop, sigHandler,
                             raised, exc, nSessions, nCalls>>
         [] OTHER -> UNCHANGED runVars
    /\ UNCHANGED <<wsVars, extVars>>

RunInit ==
    /\ statesFile = [exists |-> FALSE, dict |-> EmptyDict]
    /\ _states = EmptyDict
    /\ _index = 0
    /\ _seen = {}
    /\ pc = "closed"
    /\ loop = NoLoop
    /\ sigHandler = "default"
    /\ signal_received = FALSE
    /\ raised = ""
    /\ exc = ""
    /\ hist = HistInit
    /\ nSessions = 0
    /\ nCalls = 0

NextRun ==
    \/ EnterRun
    \/ RestartProcess
    \/ ExitRun
    \/ \E d \in ValueDefaults, name \in ValueNames : Value(d, name)
    \/ \E kind \in {"range", "brange"}, wrap \in BOOLEAN, args \in {<<LoopN>>, <<0, LoopN + 1, 2>>},
          name \in {NoName, "r"} : StartLoop(kind, wrap, args, name)
    \/ NextPlain
    \/ NonbreakResume
    \/ NonbreakNext
    \/ BodyComplete
    \/ Break
    \/ Sigint

----------------------------------------------------------------------------
----------------------------------------------------------------------------
(* Session ids: Run.__init__ chooses the id, Run.__enter__ creates the     *)
(* session directory and loads its .states.pt, Run.__exit__ writes it.     *)
(* Strings are sequences of character codes, compared as Python compares.  *)

(* Bounds of the session machine *)
MaxRuns == 3
MaxClock == 2

Dash == 45
Underscore == 95
Digit0 == 48

\* Runtime.date_str, fixed when the Workspace object is created
date_str(ts) == <<Digit0 + ts>>

RECURSIVE LexLess(_, _)
\* str.__lt__
LexLess(a, b) ==
    IF b = <<>> THEN FALSE
    ELSE IF a = <<>> THEN TRUE
    ELSE IF Head(a) # Head(b) THEN Head(a) < Head(b)
    ELSE LexLess(Tail(a), Tail(b))

\* max(ids)
StrMax(S) == CHOOSE m \in S : \A x \in S : x = m \/ LexLess(x, m)

\* str.startswith
startswith(str, prefix) ==
    Len(str) >= Len(prefix) /\ SubSeq(str, 1, Len(prefix)) = prefix

\* lines 264-265: the session directories whose name starts with tag + '-'
MatchingIds(dirs, tag) == {id \in DOMAIN dirs : startswith(id, Append(tag, Dash))}

RECURSIVE Unused(_, _)
\* lines 270-272: while ws.snapshot(self._id).exists(): self._id += '_'
Unused(dirs, id) ==
    IF id \in DOMAIN dirs THEN Unused(dirs, Append(id, Underscore)) ELSE id

\* Run.__init__, lines 262-272: the id of Run(ws, tag, resume)
RunId(dirs, tag, resume, ts) ==
    LET ids == IF resume THEN MatchingIds(dirs, tag) ELSE {}
        id == IF ids # {} THEN StrMax(ids) ELSE Append(tag, Dash) \o date_str(ts)
    IN IF resume THEN id ELSE Unused(dirs, id)

\* a Workspace object is created: its Runtime takes the time as date_str
SessOpenWorkspace ==
    /\ wsClock < MaxClock
    /\ wsClock' = wsClock + 1
    /\ UNCHANGED <<sdirs, runs>>
    /\ UNCHANGED <<wsVars, runVars, accVars, itVars>>

\* ws.run(tag, resume) on the Workspace object with date_str ts
NewRun(tag, resume, ts) ==
    /\ Len(runs) < MaxRuns
    /\ runs' = Append(runs,
          [tag |-> tag, resume |-> resume, id |-> RunId(sdirs, tag, resume, ts),
           st |-> "new", loaded |-> {},
           own |-> {id \in DOMAIN sdirs : sdirs[id].owner = tag}, ts |-> ts])
    /\ UNCHANGED <<sdirs, wsClock>>
    /\ UNCHANGED <<wsVars, runVars, accVars, itVars>>

\* Run.__enter__: snapshot(id, '.states.pt') makes the directory, the file
\* is loaded when it exists
SessEnter(r) ==
    LET id == runs[r].id
        dir == IF id \in DOMAIN sdirs THEN sdirs[id]
               ELSE [owner |-> runs[r].tag, file |-> [exists |-> FALSE, dict |-> {}]]
        st == IF dir.file.exists THEN dir.file.dict ELSE {}
    IN
    /\ runs[r].st = "new"
    /\ sdirs' = [x \in DOMAIN sdirs \cup {id} |-> IF x = id THEN dir ELSE sdirs[x]]
    /\ runs' = [runs EXCEPT ![r].st = "open", ![r].loaded = st]
    /\ UNCHANGED wsClock
    /\ UNCHANGED <<wsVars, runVars, accVars, itVars>>

\* the block stores an entry of its own (run.value) and ends: Run.__exit__
\* writes the state dictionary to the session's file
SessExit(r) ==
    /\ runs[r].st = "open"
    /\ sdirs' = [sdirs EXCEPT ![runs[r].id].file =
                    [exists |-> TRUE, dict |-> runs[r].loaded \cup {runs[r].tag}]]
    /\ runs' = [runs EXCEPT ![r].st = "closed"]
    /\ UNCHANGED wsClock
    /\ UNCHANGED <<wsVars, runVars, accVars, itVars>>

SessInit ==
    /\ sdirs = <<>>
    /\ runs = <<>>
    /\ wsClock = 1

----------------------------------------------------------------------------
(* Accumulator *)

(* Bound of the accumulator machine: additions since creation or clear *)
MaxAdds == 4
MaxClears == 2

\* Accumulator.__init__
NewAccumulator == [_sum |-> 0, _cnt |-> 0]

\* Accumulator.__iadd__
__iadd__(a, other) == [_sum |-> a._sum + other, _cnt |-> a._cnt + 1]

clear_KeepCount(a) == [_sum |-> 0, _cnt |-> a._cnt]

\* Accumulator.clear
clear(a) == [_sum |-> 0, _cnt |-> 0]

\* Accumulator.sum
sum(a) == a._sum

\* Accumulator.mean: the true division self._sum / self._cnt as a fraction,
\* or self._sum itself when nothing was added
mean(a) == IF a._cnt > 0 THEN [num |-> a._sum, den |-> a._cnt]
           ELSE [num |-> a._sum, den |-> 1]

\* acc += v
AccAdd(v) ==
    /\ Len(added) < MaxAdds
    /\ acc' = __iadd__(acc, v)
    /\ added' = Append(added, v)
    /\ UNCHANGED nClears
    /\ UNCHANGED <<wsVars, runVars, sessVars, itVars>>

\* acc.clear()
AccClear ==
    /\ nClears < MaxClears
    /\ acc' = clear(acc)
    /\ added' = <<>>
    /\ nClears' = nClears + 1
    /\ UNCHANGED <<wsVars, runVars, sessVars, itVars>>

AccInit ==
    /\ acc = NewAccumulator
    /\ added = <<>>
    /\ nClears = 0

----------------------------------------------------------------------------
(* The Iterator machine: util.Iterator, consumer thread and producer       *)
(* thread.  The item of position p is written p.                           *)

(* Bounds of the Iterator machine *)
MaxLength == 3
MaxNext == 4

\* queue.Queue(maxsize=8)
QueueMaxsize == 8

NoIterator == [length |-> 0 - 1]

Item(p) == [k |-> "item", p |-> p, e |-> ""]
Exc(p, e) == [k |-> "exc", p |-> p, e |-> e]
StopIteration(p) == [k |-> "stop", p |-> p, e |-> "StopIteration"]

\* Iterator.__len__ with a batch_size that divides nothing further: the
\* number of positions
IterLen(it) == it.length

\* the exception is left to end the producer thread
Caught_Never(daemon) == FALSE

\* produce, "except Exception as e: if daemon: self.queue.put(e); return;
\* else: raise"
Caught(daemon) == daemon

\* Iterator(data, prefetch=..., batch_size=...): failAt are the positions
\* whose data access raises
NewIterator(length, failAt, prefetch, batch) ==
    /\ iterator = NoIterator
    /\ iterator' = [length |-> length, failAt |-> failAt, prefetch |-> prefetch,
                    batch |-> batch]
    /\ queue' = <<>>
    /\ pos' = 0
    /\ thread' = "none"
    /\ UNCHANGED <<prodI, consumer, got, nNext>>
    /\ UNCHANGED <<wsVars, runVars, sessVars, accVars>>

\* Iterator.__next__ up to queue.get(); without prefetch the whole call,
\* produce(False) putting the one item that get then takes
NextCall ==
    /\ iterator # NoIterator
    /\ consumer = "idle"
    /\ nNext < MaxNext
    /\ nNext' = nNext + 1
    /\ thread' = IF thread = "none" /\ iterator.prefetch THEN "running" ELSE thread
    /\ prodI' = IF thread = "none" /\ iterator.prefetch THEN pos ELSE prodI
    /\ IF pos >= IterLen(iterator)
       THEN /\ got' = Append(got, StopIteration(pos))
            /\ UNCHANGED <<consumer, pos, queue>>
       ELSE IF iterator.prefetch
       THEN /\ consumer' = "get"
            /\ UNCHANGED <<got, pos, queue>>
       ELSE IF pos \in iterator.failAt
       THEN /\ got' = Append(got, Exc(pos, "DataError"))
            /\ UNCHANGED <<consumer, pos, queue>>
       ELSE /\ got' = Append(got, Item(pos))
            /\ pos' = pos + 1
            /\ UNCHANGED <<consumer, queue>>
    /\ UNCHANGED iterator
    /\ UNCHANGED <<wsVars, runVars, sessVars, accVars>>

\* Iterator.__next__ from queue.get() on: an exception is raised, an item
\* advances pos and is returned
NextGet ==
    /\ consumer = "get"
    /\ queue # <<>>
    /\ queue' = Tail(queue)
    /\ consumer' = "idle"
    /\ got' = Append(got, Head(queue))
    /\ pos' = IF Head(queue).k = "exc" THEN pos ELSE pos + 1
    /\ UNCHANGED <<iterator, thread, prodI, nNext>>
    /\ UNCHANGED <<wsVars, runVars, sessVars, accVars>>

\* one round of the loop of produce(daemon=True) on the producer thread;
\* with batch_size None the code falls out of the first loop into the loop
\* of the batch branch, where index * bs raises TypeError if a position is left
Produce ==
    /\ thread = "running"
    /\ Len(queue) < QueueMaxsize
    /\ IF prodI < IterLen(iterator)
       THEN IF prodI \in iterator.failAt
            THEN IF Caught(TRUE)
                 THEN /\ queue' = Append(queue, Exc(prodI, "DataError"))
                      /\ thread' = "finished"
                      /\ UNCHANGED prodI
                 ELSE /\ thread' = "crashed"
                      /\ UNCHANGED <<queue, prodI>>
            ELSE /\ queue' = Append(queue, Item(prodI))
                 /\ prodI' = prodI + 1
                 /\ UNCHANGED thread
       ELSE /\ thread' = "finished"
            /\ UNCHANGED prodI
            /\ IF ~iterator.batch /\ pos < IterLen(iterator)
               THEN queue' = Append(queue, Exc(pos, "TypeError"))
               ELSE UNCHANGED queue
    /\ UNCHANGED <<iterator, pos, consumer, got, nNext>>
    /\ UNCHANGED <<wsVars, runVars, sessVars, accVars>>

ItInit ==
    /\ iterator = NoIterator
    /\ queue = <<>>
    /\ pos = 0
    /\ thread = "none"
    /\ prodI = 0
    /\ consumer = "idle"
    /\ got = <<>>
    /\ nNext = 0

NextIter ==
    \/ \E length \in 1..MaxLength, failAt \in SUBSET (0..(MaxLength - 1)),
          prefetch \in BOOLEAN, batch \in BOOLEAN :
          failAt \subseteq 0..(length - 1) /\ NewIterator(length, failAt, prefetch, batch)
    \/ NextCall
    \/ NextGet
    \/ Produce

Init == WsInit /\ RunInit /\ SessInit /\ AccInit /\ ItInit

Spec == Init /\ [][Next]_vars

SpecRun == Init /\ [][NextRun]_vars

NextSess ==
    \/ SessOpenWorkspace
    \/ \E tag \in {<<97>>, <<97, 45, 98>>}, resume \in BOOLEAN, ts \in 1..wsClock : NewRun(tag, resume, ts)
    \/ \E r \in 1..Len(runs) : SessEnter(r)
    \/ \E r \in 1..Len(runs) : SessExit(r)

NextBuild ==
    \/ \E w \in WsIds, name \in BuildNames, kw \in SlotOverrides :
          nOps < MaxBuildOps /\ Build(w, name, kw)
    \/ \E i \in ObjIds : nOps < MaxBuildOps /\ CallBuilder(i)
    \/ \E w \in WsIds : nOps < MaxBuildOps /\ Register(w, "main", "U", EmptyDict)
    \/ \E w \in WsIds : nOps < MaxBuildOps /\ RegisterTypeName(w, "main", "UnknownType")
    \/ \E w \in WsIds : nOps < MaxBuildOps /\ EnterWorkspace(w)
    \/ \E w \in WsIds, e \in {"", "ValueError"} : ExitWorkspace(w, e)

NextToml ==
    \/ \E w \in WsIds, r \in
         {<<"main", "D", EmptyDict>>, <<"sub", "B", NestedB>>, <<"sub", "B", [b |-> DictV(EmptyDict)]>>, <<"sub", "B", [b |-> IntV(2)]>>} :
          nOps < MaxTomlOps /\ Register(w, r[1], r[2], r[3])
    \/ \E w \in WsIds : nOps < MaxTomlOps /\ Write(w)
    \/ nOps < MaxTomlOps /\ OpenWorkspace

InitToml == TableInit(TomlTables) /\ RunInit /\ SessInit /\ AccInit /\ ItInit

SpecToml == InitToml /\ [][NextToml]_vars

NextSnap ==
    \/ \E w \in WsIds, name \in Names, kw \in Overrides :
          nOps < MaxSnapOps /\ Build(w, name, kw)
    \/ \E i \in ObjIds, tag \in SnapTags : nOps < MaxSnapOps /\ Save(i, tag)
    \/ \E name \in Names, tag \in SnapTags : nOps < MaxSnapOps /\ Load(name, tag)

InitSnap == TableInit(SnapTables) /\ RunInit /\ SessInit /\ AccInit /\ ItInit

SpecSnap == InitSnap /\ [][NextSnap]_vars

NextRec ==
    \/ \E w \in WsIds, name \in RecNames : nOps < MaxRecOps /\ Build(w, name, EmptyDict)
    \/ \E i \in ObjIds : nOps < MaxRecOps /\ CallBuilder(i)

InitRec == TableInit(RecTables) /\ RunInit /\ SessInit /\ AccInit /\ ItInit

SpecRec == InitRec /\ [][NextRec]_vars

InitBuild == TableInit(BuildTables) /\ RunInit /\ SessInit /\ AccInit /\ ItInit

SpecBuild == InitBuild /\ [][NextBuild]_vars

SpecSess == Init /\ [][NextSess]_vars

NextAcc ==
    \/ \E v \in {1, 2, 3} : AccAdd(v)
    \/ AccClear

SpecAcc == Init /\ [][NextAcc]_vars

SpecIter == Init /\ [][NextIter]_vars

----------------------------------------------------------------------------
(* Claims about build / save / load *)

C2_LoadTableIsSnapshotEnv ==
    \A w \in WsIds :
        wss[w].origin = "loaded" => config_dict(wss[w].modules, objs) = wss[w].env

\* C3: the submodule of a built object keeps the configuration it was built
\* with, whatever is registered afterwards.
C3_BuiltSubmoduleUnchanged ==
    \A i \in ObjIds : View(objs, i).sub = built[i].view.sub

\* C4: a submodule instance made by build, and an instance made by calling a
\* Builder handle, has the class and parameters that the table of its
\* workspace held under the resolved name when the call was made.
C4_ResolvedAtCallTime ==
    LET \* the parameters the table tab (a config_dict) gives an instance of name
        TableParams(tab, name) ==
            LET cls == tab[name]["__module"].s
            IN Update(Defaults(cls), Without(tab[name], {"__module"} \cup SlotSet(cls)))
    IN
    \A i \in ObjIds :
        /\ built[i].how \in {"sub", "builder"}
              => /\ objs[i].build_name \in DOMAIN built[i].tab
                 /\ built[i].view.cls = built[i].tab[objs[i].build_name]["__module"].s
                 /\ built[i].view.params = TableParams(built[i].tab, objs[i].build_name)
        /\ built[i].how = "builder" => objs[i].build_name = objs[built[i].src].sub.name
        /\ (objs[i].sub.k = "obj" /\ built[objs[i].sub.id].how = "sub")
              => objs[objs[i].sub.id].build_name
                     = SlotName(Without(built[i].tab[objs[i].build_name], {"__module"}), "sub")

\* two builds of main in one workspace, the submodule entry replaced between
\* them: the later build has the new submodule parameters
C4_Witness ==
    \E i, j \in ObjIds :
        /\ i < j
        /\ objs[i].build_name = "main" /\ objs[j].build_name = "main"
        /\ objs[i].ws = objs[j].ws
        /\ objs[i].sub.k = "obj" /\ objs[j].sub.k = "obj"
        /\ built[i].view.sub.params = [b |-> IntV(2)]
        /\ built[j].view.sub.params = [b |-> IntV(4)]

----------------------------------------------------------------------------
(* Claims about the Run session *)

C6_RangeResumesPastCompleted ==
    (hist.resumes # NoLeft /\ hist.resumes.how = "break-after"
        /\ hist.resumes.kind = "range" /\ Len(hist.ys) >= 1)
        => hist.ys[1] = hist.resumes.i + hist.resumes.step

C6_Witness ==
    /\ hist.resumes # NoLeft /\ hist.resumes.how = "break-after"
    /\ hist.resumes.kind = "range" /\ Len(hist.ys) >= 1
    /\ hist.ys[1] = hist.resumes.i + hist.resumes.step
    /\ nSessions >= 2

\* C7: a brange left during iteration i yields i again first in the resumed
\* session and then runs on to the stop bound of the resumed call.
C7_BrangeReentersInterrupted ==
    (hist.resumes # NoLeft /\ hist.resumes.how = "break-body" /\ hist.resumes.kind = "brange")
        => /\ \A j \in 1..Len(hist.ys) :
                 /\ hist.ys[j] = hist.resumes.i + (j - 1) * hist.args[3]
                 /\ InRange(hist.ys[j], hist.args[2], hist.args[3])
           /\ hist.ended =>
                 ~InRange(hist.resumes.i + Len(hist.ys) * hist.args[3], hist.args[2], hist.args[3])

\* a resumed brange with another stop bound than the interrupted call ran to
\* its end, starting at the interrupted index
C7_Witness ==
    /\ hist.resumes # NoLeft /\ hist.resumes.how = "break-body" /\ hist.resumes.kind = "brange"
    /\ hist.ended
    /\ Len(hist.ys) >= 2
    /\ hist.ys[1] = hist.resumes.i
    /\ hist.args[2] # hist.resumes.stop

\* C8: in for i in nonbreak(run.range(LoopN, name='r')) a SIGINT during a body
\* is only recorded; the body ends, KeyboardInterrupt is raised before the
\* next body starts, the state is persisted, the resumed session continues at
\* i + 1, and over all sessions every index is executed exactly once.
C8_NonbreakDefersInterrupt ==
    hist.clean =>
        /\ \A i \in Idx : hist.execs[i] <= 1
        /\ hist.exhausted => \A i \in 0..(LoopN - 1) : hist.execs[i] = 1
        /\ pc = "body" =>
              /\ sigHandler = "nonbreak"
              /\ hist.execs[loop.cur] = 0
              /\ \A i \in 0..(loop.cur - 1) : hist.execs[i] = 1
              /\ signal_received => hist.sigAt = loop.cur
        /\ (pc = "closed" /\ hist.left # NoLeft /\ hist.left.how = "deferred")
              => /\ raised = "KeyboardInterrupt"
                 /\ statesFile.dict["r"] = StateV(hist.left.i + 1, FALSE)
        /\ (hist.resumes # NoLeft /\ hist.resumes.how = "deferred" /\ Len(hist.ys) >= 1)
              => hist.ys[1] = hist.resumes.i + 1

\* C9 as stated: after an interrupt inside the body of iteration i the
\* resumed range, and the resumed brange, yields i first.
C9_InterruptedIterationRepeated ==
    (hist.resumes # NoLeft /\ hist.resumes.how = "interrupt-body" /\ Len(hist.ys) >= 1)
        => hist.ys[1] = hist.resumes.i

\* C9 amended: after an interrupt inside the body of iteration i the resumed
\* range yields i + step first (iteration i is not executed again), the
\* resumed brange yields i first.
C9_InterruptedIterationResume ==
    (hist.resumes # NoLeft /\ hist.resumes.how = "interrupt-body" /\ Len(hist.ys) >= 1)
        => hist.ys[1] = IF hist.resumes.kind = "brange" THEN hist.resumes.i
                        ELSE hist.resumes.i + hist.resumes.step

C9_Witness ==
    /\ hist.resumes # NoLeft /\ hist.resumes.how = "interrupt-body"
    /\ hist.resumes.kind = "range"
    /\ Len(hist.ys) >= 1
    /\ hist.ys[1] = hist.resumes.i + hist.resumes.step

\* C10: every step that leaves an open Run scope writes the whole state
\* dictionary to the .states file, live Range objects as their state dicts,
\* and the exception raised in the scope is the one the caller gets.
C10_ExitPersistsStates ==
    [][(pc # "closed" /\ pc' = "closed")
          => /\ statesFile' =
                  [exists |-> TRUE,
                   dict |-> [n \in DOMAIN _states |->
                               IF _states[n].k = "range"
                               THEN StateV(_states[n].start, _states[n]._breakable)
                               ELSE _states[n]]]
             /\ exc' = raised']_vars

\* a scope left by KeyboardInterrupt with a value and a range state on disk
C10_Witness ==
    /\ pc = "closed"
    /\ raised = "KeyboardInterrupt" /\ exc = "KeyboardInterrupt"
    /\ \E n, m \in DOMAIN statesFile.dict :
          statesFile.dict[n].k = "state" /\ statesFile.dict[m].k = "int"

----------------------------------------------------------------------------
(* Claims about session ids *)

\* C11: a Run made with resume=True has the lexicographically greatest id
\* among the existing session directories of its tag and loads that
\* session's persisted state on entry; when the tag has no session its id is
\* tag + '-' + date_str and it starts with an empty state dictionary.
C11_ResumeLatestOfTag ==
    \A r \in 1..Len(runs) :
        runs[r].resume =>
            IF runs[r].own # {}
            THEN /\ runs[r].id = StrMax(runs[r].own)
                 /\ runs[r].loaded \subseteq {runs[r].tag}
            ELSE /\ runs[r].id = Append(runs[r].tag, Dash) \o date_str(runs[r].ts)
                 /\ runs[r].loaded = {}

\* C12: a Run never has the id of a session directory made under another
\* tag, and the state it loads holds no entry stored under another tag.
C12_TagsSeparate ==
    \A r \in 1..Len(runs) :
        /\ runs[r].id \in DOMAIN sdirs => sdirs[runs[r].id].owner = runs[r].tag
        /\ runs[r].loaded \subseteq {runs[r].tag}

\* C13: a Run made with resume=False has an id no Run object made before it
\* has, and starts with an empty state dictionary.
C13_NonResumedIdUnused ==
    \A i, j \in 1..Len(runs) :
        (i < j /\ ~runs[j].resume) => (runs[j].id # runs[i].id /\ runs[j].loaded = {})

----------------------------------------------------------------------------
(* Claims about the Accumulator *)

RECURSIVE SeqSum(_)
SeqSum(q) == IF q = <<>> THEN 0 ELSE Head(q) + SeqSum(Tail(q))

\* C15: sum() is the sum of the values added since creation or the last
\* clear() and mean() is that sum divided by their number; with nothing
\* added both are 0.
C15_AccumulatorSumMean ==
    /\ sum(acc) = SeqSum(added)
    /\ IF added = <<>> THEN mean(acc).num = 0
       ELSE mean(acc).num * Len(added) = SeqSum(added) * mean(acc).den

\* three values were added after a clear() that followed other additions
C15_Witness ==
    /\ nClears >= 1
    /\ Len(added) = 3
    /\ acc._cnt = 3
    /\ sum(acc) = SeqSum(added)

----------------------------------------------------------------------------
(* Claims on build, checked on SpecBuild *)

\* C16: build(name) of a name without entry in the table raises
\* NotConfiguredError, constructs no object and leaves the table as it was;
\* so does the build of a configured module whose eagerly built submodule
\* has no entry
C16_UnconfiguredBuildFails ==
    [][\A w \in WsIds, name \in BuildNames, kw \in SlotOverrides :
         LET ent == wss[w].modules[name]
             cfg == Update(EntryCfg(ent, objs), kw)
             \* lines 154-157: a slot of an eagerly building class of the entry,
             \* merged with kw, is absent or a string and names no entry
             MissingEagerSub ==
                /\ ent.cls \in configurables
                /\ _build_subs(ent.cls)
                /\ \E sub \in SlotSet(ent.cls) :
                     /\ sub \notin DOMAIN cfg \/ cfg[sub].k = "str"
                     /\ SlotName(cfg, sub) \notin DOMAIN wss[w].modules
         IN (Build(w, name, kw)
               /\ (name \notin DOMAIN wss[w].modules \/ MissingEagerSub))
            => (wsErr' = "NotConfiguredError" /\ objs' = objs /\ wss' = wss)]_vars

\* a build has failed on a table whose main is the eager D and whose
\* submodule sub has no entry
C16_Witness ==
    /\ wsErr = "NotConfiguredError"
    /\ "main" \in DOMAIN wss[1].modules
    /\ wss[1].modules["main"] = Entry("D", EmptyDict)
    /\ "sub" \notin DOMAIN wss[1].modules
    /\ objs = <<>>

\* C17: build(name) of an entry whose type name is not in the registry
\* raises the module-not-found error (KeyError 'definition of module ...
\* not found'), and register('main', 'UnknownType') is accepted: it raises
\* nothing and stores the entry that the following build rejects
C17_UnknownTypeFailsAtBuild ==
    [][/\ \A w \in WsIds, name \in BuildNames, kw \in SlotOverrides :
            (Build(w, name, kw)
               /\ name \in DOMAIN wss[w].modules
               /\ wss[w].modules[name].cls \notin configurables)
            => (wsErr' = "KeyError" /\ objs' = objs)
       /\ \A w \in WsIds :
            RegisterTypeName(w, "main", "UnknownType")
            => /\ wsErr' = ""
               /\ "main" \in DOMAIN wss'[w].modules
               /\ wss'[w].modules["main"].cls = "UnknownType"]_vars

\* lines 154-159 as seen from outside: what a successful build passes to
\* the constructor for each slot; emptyIsAbsent says which entry a string
\* in a slot is taken to stand for
SlotsResolved(emptyIsAbsent) ==
    /\ \A w \in WsIds, name \in BuildNames, kw \in SlotOverrides :
         (Build(w, name, kw) /\ wsErr' = "")
         => LET ent == wss[w].modules[name]
                cfg == Update(EntryCfg(ent, objs), kw)
                obj == objs'[Len(objs')]
                n == Len(objs)
                Target(c, sl) ==
                    IF sl \in DOMAIN c /\ (~emptyIsAbsent \/ c[sl].s # "")
                    THEN c[sl].s ELSE sl IN
            \A sub \in SlotSet(ent.cls) :
               IF sub \in DOMAIN cfg /\ cfg[sub].k = "obj"
               THEN obj.sub = cfg[sub] /\ Len(objs') = n + 1
               ELSE IF _build_subs(ent.cls) \/ CallsSub(ent.cls)
               THEN /\ obj.sub.k = "obj"
                    /\ obj.sub.id > n
                    /\ Target(cfg, sub) \in DOMAIN wss[w].modules
                    /\ objs'[obj.sub.id].build_name = Target(cfg, sub)
                    /\ objs'[obj.sub.id].ws = w
                    /\ objs'[obj.sub.id].cls = wss[w].modules[Target(cfg, sub)].cls
               ELSE obj.sub = Builder(w, Target(cfg, sub)) /\ Len(objs') = n + 1
    /\ \A i \in ObjIds :
         (CallBuilder(i) /\ wsErr' = "")
         => /\ Len(objs') > Len(objs)
            /\ objs'[Len(objs')].build_name = objs[i].sub.name
            /\ objs'[Len(objs')].ws = objs[i].sub.ws

\* C19: for each submodule slot of the class being built, an instance in the
\* merged parameters reaches the constructor unchanged and nothing else is
\* built; an absent slot stands for the entry named like the slot and a
\* string for the entry of that name; an eager class gets that entry built
\* in the same workspace, a deferring class gets a Builder handle to it and
\* nothing is built until the handle is called
C19_SlotResolution == [][SlotsResolved(FALSE)]_vars

\* C19 as it holds: an empty string in a slot stands for the entry named
\* like the slot, as an absent slot does; every other string for the entry
\* of that name
C19_SlotResolutionNonEmpty == [][SlotsResolved(TRUE)]_vars

\* main is the deferring L with an empty string in its slot: the instance
\* built holds a handle to sub, and the handle has been called
C19_Witness ==
    \E j, k \in ObjIds :
        /\ "main" \in DOMAIN wss[1].modules
        /\ wss[1].modules["main"] = Entry("L", [sub |-> StrV("")])
        /\ objs[j].cls = "L"
        /\ objs[j].build_name = "main"
        /\ objs[j].sub = Builder(1, "sub")
        /\ built[k].how = "builder"
        /\ built[k].src = j
        /\ objs[k].build_name = "sub"

\* C20: entering a Workspace as a context manager changes neither the
\* table nor any file nor raises; leaving it writes the table as it is then
\* to config.toml, whether the block ended normally or by an exception, and
\* the exception is what the caller gets
C20_ExitWritesTable ==
    [][/\ \A w \in WsIds :
            EnterWorkspace(w)
            => /\ wss'[w].modules = wss[w].modules
               /\ configToml' = configToml
               /\ snapshots' = snapshots
               /\ objs' = objs
               /\ wsErr' = ""
       /\ \A w \in WsIds, e \in {"", "ValueError"} :
            ExitWorkspace(w, e)
            => /\ configToml' = File(TomlDump(config_dict(wss[w].modules, objs)))
               /\ wss'[w].modules = wss[w].modules
               /\ wsErr' = e]_vars

\* a with block that registered the class U was left by an exception:
\* config.toml holds the table with that entry
C20_Witness ==
    /\ wsErr = "ValueError"
    /\ ~wss[1].inWith
    /\ "main" \in DOMAIN wss[1].modules
    /\ wss[1].modules["main"].cls = "U"
    /\ configToml = File(TomlDump(config_dict(wss[1].modules, objs)))

----------------------------------------------------------------------------
(* Claims on build, checked on Spec *)

\* C18: a successful build(name, **O) makes an object whose parameters are
\* the base parameters stored for name with O merged over them (O wins),
\* whose build name is name, whose workspace is the building one and whose
\* build-spec is O exactly when O is non-empty; the base parameters stored
\* in the table for name are the same after the build
C18_BuildMergesOverrides ==
    [][\A w \in WsIds, name \in Names, O \in Overrides :
         (Build(w, name, O) /\ wsErr' = "")
         => LET obj == objs'[Len(objs')]
                base == EntryCfg(wss[w].modules[name], objs)
                slots == SlotSet(wss[w].modules[name].cls) IN
            /\ Len(objs') > Len(objs)
            /\ \A k \in DOMAIN O \ slots :
                 k \in DOMAIN obj.config /\ obj.config[k] = O[k]
            /\ \A k \in DOMAIN base \ (DOMAIN O \cup slots) :
                 k \in DOMAIN obj.config /\ obj.config[k] = base[k]
            /\ obj.build_name = name
            /\ obj.ws = w
            /\ IF O = EmptyDict THEN obj.spec = NoSpec ELSE obj.spec = O
            /\ name \in DOMAIN wss'[w].modules
            /\ wss'[w].modules[name].cls = wss[w].modules[name].cls
            /\ EntryCfg(wss'[w].modules[name], objs') = base]_vars

\* sub is registered with b=2 and an instance was built as build('sub', b=4)
C18_Witness ==
    \E w \in WsIds, i \in ObjIds :
        /\ "sub" \in DOMAIN wss[w].modules
        /\ EntryCfg(wss[w].modules["sub"], objs) = [b |-> IntV(2)]
        /\ objs[i].build_name = "sub"
        /\ objs[i].ws = w
        /\ objs[i].spec = [b |-> IntV(4)]
        /\ objs[i].config["b"] = IntV(4)

----------------------------------------------------------------------------
(* Claims on register and write, checked on Spec *)

\* the entries of table w other than name are after the step what they were
OthersKept(w, name) ==
    \A n \in DOMAIN wss[w].modules \ {name} :
        /\ n \in DOMAIN wss'[w].modules
        /\ wss'[w].modules[n].cls = wss[w].modules[n].cls
        /\ EntryCfg(wss'[w].modules[n], objs') = EntryCfg(wss[w].modules[n], objs)

\* C21: register(name, cls or instance, **params) replaces the entry of
\* name in the table, leaves every other entry and config.toml as they
\* were; config.toml changes only by write() (or the exit of a with block)
C21_RegisterReplacesOnlyName ==
    [][/\ \A w \in WsIds, r \in RegInputs :
            Register(w, r[1], r[2], r[3])
            => /\ wss'[w].modules[r[1]].cls = r[2]
               /\ EntryCfg(wss'[w].modules[r[1]], objs') = r[3]
               /\ OthersKept(w, r[1])
               /\ configToml' = configToml
       /\ \A w \in WsIds, name \in Names, i \in ObjIds, kw \in InstKwargs :
            RegisterInstance(w, name, i, kw)
            => /\ wss'[w].modules[name].cls = objs[i].cls
               /\ EntryCfg(wss'[w].modules[name], objs') = Update(objs[i].config, kw)
               /\ OthersKept(w, name)
               /\ configToml' = configToml
       /\ configToml' # configToml => \E w \in WsIds : Write(w)]_vars

\* C22: after write(), a Workspace opened on the same directory has the
\* table of the writer: the same names, classes and parameter values, nested
\* mappings included; a build call gives in it what it gives in the writer
C22_WrittenTableReopens ==
    [][/\ \A w \in WsIds :
            Write(w)
            => LET nw == WorkspaceInit(configToml', None, "opened")
                   W == Append(wss, nw) IN
               /\ config_dict(nw.modules, objs) = config_dict(wss[w].modules, objs)
               /\ \A name \in Names, kw \in Overrides :
                    LET r1 == build(wss, w, name, kw, objs, 0)
                        r2 == build(W, Len(W), name, kw, objs, 0) IN
                    /\ r1.err = r2.err
                    /\ r1.err = "" => View(r1.heap, r1.id) = View(r2.heap, r2.id)
       /\ OpenWorkspace
            => config_dict(wss'[Len(wss')].modules, objs')
                 = IF configToml.exists THEN TomlLoad(configToml) ELSE EmptyDict]_vars

\* a second Workspace was opened on a written config.toml that holds main
\* and a sub with a nested mapping, and it has the table of the first
C22_Witness ==
    /\ Len(wss) = 2
    /\ wss[2].origin = "opened"
    /\ configToml.exists
    /\ DOMAIN wss[1].modules = {"main", "sub"}
    /\ EntryCfg(wss[1].modules["sub"], objs) = NestedB
    /\ TomlLoad(configToml) = config_dict(wss[1].modules, objs)
    /\ config_dict(wss[2].modules, objs) = config_dict(wss[1].modules, objs)

\* C30: register(name, instance, **kwargs) leaves the configuration of the
\* instance as it was and stores an entry of its own, not the dict of the
\* instance
C30_RegisterInstanceCopies ==
    [][\A w \in WsIds, name \in Names, i \in ObjIds, kw \in InstKwargs :
         RegisterInstance(w, name, i, kw)
         => /\ objs'[i].config = objs[i].config
            /\ wss'[w].modules[name].alias = 0]_vars

----------------------------------------------------------------------------
(* Claims on snapshots, checked on SpecSnap *)

\* what save(obj, tag) does to the snapshot files when tags with the ending
\* .pt are counted as bare tags (anyTag) or not: it writes the file that
\* load(name=build_name, tag) reads, and no other file; the snapshots of the
\* same name under other tags are what they were
SaveWritesTagFile(anyTag) ==
    \A i \in ObjIds, t \in SnapTags :
        (Save(i, t) /\ (anyTag \/ ~endswith(t, PtSuffix)))
        => LET f == SnapshotFile(objs[i].build_name, <<Dot>> \o t \o PtSuffix) IN
           /\ LoadPath(objs[i].build_name, t) = f
           /\ snapshots'[f].exists
           /\ snapshots'[f].of = i
           /\ \A g \in SnapKeys \ {f} : snapshots'[g] = snapshots[g]
           /\ \A u \in SnapTags \ {t} :
                snapshots'[LoadPath(objs[i].build_name, u)]
                    = snapshots[LoadPath(objs[i].build_name, u)]

\* C23: for every built object and every bare string tag t, save(obj, t)
\* writes snapshot/<build_name>.<t>.pt, the file that load(build_name, t)
\* reads; a save under another tag writes another file and leaves the
\* snapshot under t as it was
C23_SaveLoadSameFile == [][SaveWritesTagFile(TRUE)]_vars

\* C23 as it holds: for every bare tag that does not end with .pt
C23_SaveLoadSameFileNoPt == [][SaveWritesTagFile(FALSE)]_vars

\* two objects built as sub were saved under the tags t and u, and the one
\* saved under t was loaded again
C23_Witness ==
    \E i, j, k \in ObjIds :
        /\ i # j
        /\ snapshots[LoadPath("sub", <<116>>)].exists
        /\ snapshots[LoadPath("sub", <<116>>)].of = i
        /\ snapshots[LoadPath("sub", <<117>>)].exists
        /\ snapshots[LoadPath("sub", <<117>>)].of = j
        /\ built[k].how = "load"
        /\ built[k].src = i

----------------------------------------------------------------------------
(* Claims on Iterator, checked on SpecIter *)

\* C24: with prefetch, an exception raised while the producer prepares the
\* item of position k does not end the producer thread by an exception: it
\* is put into the queue behind the items of the positions before k, and the
\* consumer's next() call for position k raises it, after the earlier items
\* were received in order and without advancing pos
C24_ProducerExceptionQueued ==
    (iterator # NoIterator /\ iterator.prefetch)
    => /\ thread # "crashed"
       /\ \A n \in 1..Len(queue) :
            (queue[n].k = "exc" /\ queue[n].e = "DataError")
            => /\ queue[n].p \in iterator.failAt
               /\ \A m \in 1..(n - 1) : queue[m] = Item(queue[n].p - n + m)
       /\ \A m \in 1..Len(got) :
            /\ got[m].k = "item" => (got[m].p = m - 1 /\ got[m].p \notin iterator.failAt)
            /\ got[m].k = "exc"
                 => /\ got[m] = Exc(m - 1, "DataError")
                    /\ (m - 1) \in iterator.failAt
                    /\ \A n \in 1..(m - 1) : got[n] = Item(n - 1)
                    /\ pos = m - 1

\* the data access of position 2 raised on the producer thread: the consumer
\* got the items 0 and 1 and then the exception, pos is 2
C24_Witness ==
    /\ iterator # NoIterator
    /\ iterator.prefetch
    /\ thread = "finished"
    /\ got = <<Item(0), Item(1), Exc(2, "DataError")>>
    /\ pos = 2

\* C29: with prefetch no next() call blocks forever: the consumer is never
\* inside queue.get() on an empty queue that no producer thread will fill
C29_NextNeverBlocksForever ==
    ~(consumer = "get" /\ queue = <<>> /\ thread \in {"finished", "crashed"})

----------------------------------------------------------------------------
(* Claims on recursive build, checked on SpecRec *)

RECURSIVE ReachedIn(_, _, _, _)
\* the entries reached from the set S in 1 to steps references
ReachedIn(w, S, kind, steps) ==
    LET \* the entries that the build of entry n goes on to build: the entry its
        \* slot stands for, if the class builds eagerly (kind "eager"), or does so
        \* or calls the handle in its constructor (kind "followed"), or whatever
        \* the class does with the slot (kind "any")
        RefsOf(n) ==
            IF n \notin DOMAIN wss[w].modules THEN {}
            ELSE LET ent == wss[w].modules[n]
                     cfg == EntryCfg(ent, objs) IN
                 IF ent.cls \notin configurables THEN {}
                 ELSE {SlotName(cfg, sub) : sub \in
                         {x \in SlotSet(ent.cls) :
                            /\ x \notin DOMAIN cfg \/ cfg[x].k = "str"
                            /\ \/ kind = "any"
                               \/ _build_subs(ent.cls)
                               \/ kind = "followed" /\ CallsSub(ent.cls)}}
    IN
    IF steps = 0 THEN {}
    ELSE LET T == UNION {RefsOf(n) : n \in S}
         IN T \cup ReachedIn(w, T, kind, steps - 1)

Reached(w, n, kind) == ReachedIn(w, {n}, kind, Cardinality(RecNames))

\* an entry reached from n by references of kind via lies on a cycle of
\* references of kind
ReachesCycle(w, n, via, kind) ==
    \E m \in Reached(w, n, via) \cup {n} : m \in Reached(w, m, kind)

\* what build(name) does: it ends without running into the recursion limit
\* when no entry reached from name (by references of kind via) lies on a
\* cycle of references of kind acyclicKind, and it returns no object when
\* name lies on, or (reachesIt) reaches, a cycle of kind cyclicKind
BuildTerminates(via, acyclicKind, cyclicKind, reachesIt) ==
    \A w \in WsIds, name \in RecNames :
        Build(w, name, EmptyDict)
        => /\ ~ReachesCycle(w, name, via, acyclicKind) => wsErr' # "RecursionError"
           /\ (IF reachesIt THEN ReachesCycle(w, name, cyclicKind, cyclicKind)
               ELSE name \in Reached(w, name, cyclicKind))
                => (wsErr' # "" /\ objs' = objs)

\* C25: build(name) terminates when the eager submodule references reachable
\* from name are acyclic; when the entry of name references a submodule that
\* directly or transitively references name again, build recurses until the
\* interpreter stops it and returns no object
C25_BuildTerminatesIffAcyclic == [][BuildTerminates("any", "eager", "any", FALSE)]_vars

\* C25 as it holds: the references that count are those build follows, the
\* eager ones and the handles that a constructor calls; a cycle through a
\* handle that is only kept does not make build recurse
C25_BuildTerminatesIffNoFollowedCycle ==
    [][BuildTerminates("followed", "followed", "followed", TRUE)]_vars

\* main is the eager D whose slot names main itself and build has ended in
\* the recursion limit, nothing built
C25_Witness ==
    /\ wss[1].modules["main"] = Entry("D", [sub |-> StrV("main")])
    /\ wsErr = "RecursionError"
    /\ objs = <<>>
    /\ nOps = 1

----------------------------------------------------------------------------
(* Further claims on the Run session, checked on SpecRun *)

\* C26: within one session every value(d, name) call under a name returns
\* what the first such call of the session returned, and that is the value
\* persisted under the name when the session exits.  (The value a call
\* returns is the one _states holds under the name right after the call.)
C26_ValueStableInSession ==
    [][/\ \A d \in ValueDefaults, name \in ValueNames :
            (Value(d, name) /\ hist.firstRet[CallName(name)] # NoRet)
            => _states'[CallName(name)] = hist.firstRet[CallName(name)]
       /\ (pc = "open" /\ pc' = "closed")
            => \A n \in RunNames :
                 (hist.firstRet[n] # NoRet /\ hist.reg.name # n)
                 => statesFile'.dict[n] = hist.firstRet[n]]_vars

\* C27: after a loop over run.range(...) or run.brange(...) has executed
\* every iteration to its end and the session has exited, the loop
\* registered under the same name with the same bounds in a resumed session
\* executes no iteration
C27_FinishedLoopNotRerun ==
    (hist.resumes # NoLeft /\ hist.resumes.how = "finished"
        /\ hist.args[2] = hist.resumes.stop /\ hist.args[3] = hist.resumes.step)
        => hist.ys = <<>>

\* C28: when the iteration over nonbreak(...) has ended, by exhaustion, by
\* break or by an exception, the SIGINT handler that was in force before the
\* loop is in force again
C28_HandlerRestoredAfterLoop == ~InLoop => sigHandler = "default"

====
